---------------------------- MODULE Spec2Model ----------------------------
(***************************************************************************)
(* Model of app/services/epic_games_service.py: EpicAgent (workflow        *)
(* controller, order-history ledger, reconciliation against the promotion  *)
(* feed) and EpicGames (per-item routing, instant checkout, cart checkout, *)
(* cart reconciliation, the tenacity retry around collect_weekly_games).   *)
(*                                                                         *)
(* One logical thread drives one page, so the control state is a single    *)
(* program counter pc.  Every awaited browser call is a step whose result  *)
(* (value, TimeoutError, AssertionError, other exception) is chosen by the *)
(* environment; what the code does with that result is taken from its      *)
(* try/except/suppress blocks.                                             *)
(***************************************************************************)
EXTENDS Integers, Sequences, FiniteSets, TLC

(***************************************************************************)
(* Bounds of the model.                                                    *)
(***************************************************************************)
MaxRuns == 2
MaxOrders == 2
MaxItems == 1
MaxFeed == 2
MaxPaid == 2
MaxFree == 1
MaxReinvoke == 1

(***************************************************************************)
(* Program constants.                                                      *)
(***************************************************************************)
NsLen == 32
WaitRerender == 30
StopAfterAttempt == 2

(***************************************************************************)
(* Strings are sequences of one-character strings, so that Python's        *)
(* substring test  sub in s  and  +=  are computed, not assumed.           *)
(***************************************************************************)
Contains(sub, s) ==
  \E i \in 0..(Len(s) - Len(sub)) : SubSeq(s, i + 1, i + Len(sub)) = sub

Rep(c, n) == [i \in 1..n |-> c]

S_Get == <<"G","e","t">>
S_AddToCart == <<"A","d","d"," ","T","o"," ","C","a","r","t">>
S_BuyNow == <<"B","u","y"," ","N","o","w">>
S_ViewInCart == <<"V","i","e","w"," ","I","n"," ","C","a","r","t">>
S_InLibrary == <<"I","n"," ","L","i","b","r","a","r","y">>
S_ComingSoon == <<"C","o","m","i","n","g"," ","S","o","o","n">>
S_Wishlist == <<"A","d","d"," ","t","o"," ","W","i","s","h","l","i","s","t">>
S_GetUpper == <<"G","E","T">>

(* Labels the storefront may show on the purchase control of an item that *)
(* is neither owned nor in the cart.  The last three combine the markers  *)
(* so that the precedence of the tests at lines 287, 296 and 301 matters. *)
OfferLabels ==
  { S_Get, S_AddToCart, S_BuyNow, S_ComingSoon, S_GetUpper,
    S_BuyNow \o <<" ">> \o S_Get,
    S_BuyNow \o <<" ">> \o S_AddToCart,
    S_Get \o <<" ">> \o S_AddToCart }

(***************************************************************************)
(* Identifiers (namespaces).  None is Python's None: falsy, and never a    *)
(* character sequence.                                                     *)
(***************************************************************************)
None == << "None" >>
NsA == Rep("a", NsLen)
NsB == Rep("b", NsLen)
NsShort == Rep("a", NsLen - 1)
NsLong == Rep("b", NsLen + 1)
ItemNamespaces == { NsA, NsB, NsShort, NsLong, None }

Falsy(x) == x = None \/ x = <<>>

RECURSIVE SeqsUpTo(_, _)
SeqsUpTo(S, n) ==
  IF n = 0 THEN { <<>> }
  ELSE LET shorter == SeqsUpTo(S, n - 1)
       IN  shorter \cup { Append(s, x) : s \in { t \in shorter : Len(t) = n - 1 }, x \in S }

OrderTypes == { "PURCHASE", "REFUND" }
Orders == [ orderType : OrderTypes, items : SeqsUpTo(ItemNamespaces, MaxItems) ]
Histories == SeqsUpTo(Orders, MaxOrders)

(***************************************************************************)
(* _sync_order_history, lines 98-105: the items of one order that reach    *)
(* completed_orders, and the list built from the first n orders.           *)
(***************************************************************************)
(* KeepItem without the test of line 100. *)
KeepItemOfAnyOrderType(order, ns) == ~(Falsy(ns) \/ Len(ns) # NsLen)

KeepItem(order, ns) ==
  /\ ~(order.orderType # "PURCHASE")
  /\ ~(Falsy(ns) \/ Len(ns) # NsLen)

OrderItems(order) ==
  SelectSeq(order.items, LAMBDA ns : KeepItem(order, ns))

RECURSIVE CompletedOrders(_, _)
CompletedOrders(history, n) ==
  IF n = 0 THEN <<>>
  ELSE CompletedOrders(history, n - 1) \o OrderItems(history[n])

(***************************************************************************)
(* get_promotions, lines 36-77.  A feed element carries its namespace, the *)
(* discount percentages of promotions.promotionalOffers[0] (hasPromo is    *)
(* FALSE when that path raises KeyError, IndexError or TypeError), and its *)
(* two slugs ("" when absent).                                             *)
(***************************************************************************)
NoSlug == ""
Products == { "a", "b" }
UrlBase == "https://store.epicgames.com/en-US/p"

FeedElements ==
  { [ns |-> NsA, hasPromo |-> TRUE,  offers |-> <<0>>,     pageSlug |-> "a",    productSlug |-> NoSlug],
    [ns |-> NsB, hasPromo |-> TRUE,  offers |-> <<25, 0>>, pageSlug |-> NoSlug, productSlug |-> "b"],
    [ns |-> NsB, hasPromo |-> TRUE,  offers |-> <<25>>,    pageSlug |-> "b",    productSlug |-> NoSlug],
    [ns |-> NsA, hasPromo |-> TRUE,  offers |-> <<0>>,     pageSlug |-> NoSlug, productSlug |-> NoSlug],
    [ns |-> NsA, hasPromo |-> FALSE, offers |-> <<>>,      pageSlug |-> "a",    productSlug |-> NoSlug] }

Feeds == SeqsUpTo(FeedElements, MaxFeed)

is_discount_game(e) ==
  e.hasPromo /\ \E i \in DOMAIN e.offers : e.offers[i] = 0

HasUrl(e) == e.pageSlug # NoSlug \/ e.productSlug # NoSlug

ElementUrl(e) ==
  IF e.pageSlug # NoSlug THEN <<UrlBase, e.pageSlug>> ELSE <<UrlBase, e.productSlug>>

RECURSIVE get_promotions(_)
get_promotions(feed) ==
  IF feed = <<>> THEN <<>>
  ELSE LET e == feed[Len(feed)]
           rest == get_promotions(SubSeq(feed, 1, Len(feed) - 1))
       IN  IF is_discount_game(e) /\ HasUrl(e)
           THEN Append(rest, [namespace |-> e.ns, url |-> ElementUrl(e)])
           ELSE rest

(***************************************************************************)
(* _check_orders, lines 112-113.                                           *)
(***************************************************************************)
InList(x, list) == \E i \in DOMAIN list : list[i] = x

NamespacesOf(cached, ords) == IF cached # <<>> THEN cached ELSE ords

(* Outstanding with the promotions compared to the order items themselves, *)
(* which no namespace equals.                                              *)
OutstandingAgainstOrderItems(proms, nss) ==
  SelectSeq(proms, LAMBDA p : ~InList(p.namespace, [i \in DOMAIN nss |-> <<"OrderItem", nss[i]>>]))

Outstanding(proms, nss) ==
  SelectSeq(proms, LAMBDA p : ~InList(p.namespace, nss))

(* The identifiers carried by items of PURCHASE orders of a history. *)
PurchaseNamespaces(history) ==
  UNION { { history[k].items[j] : j \in DOMAIN history[k].items } :
          k \in { k \in DOMAIN history : history[k].orderType = "PURCHASE" } }

(***************************************************************************)
(* add_promotion_to_cart, lines 270-289 and 296-301: the tests on the text *)
(* of the side panel and of the purchase control.                          *)
(***************************************************************************)
RECURSIVE Texts(_, _)
Texts(buttons, n) ==
  IF n = 0 THEN <<>> ELSE Texts(buttons, n - 1) \o buttons[n]

InLibraryExactly(texts) == texts = S_InLibrary

InLibrary(texts) == Contains(S_InLibrary, texts)

NotAvailable(purchase_status) ==
  \/ Contains(S_BuyNow, purchase_status)
  \/ (~Contains(S_Get, purchase_status) /\ ~Contains(S_AddToCart, purchase_status))

Branch(text) ==
  IF Contains(S_Get, text) THEN "instant"
  ELSE IF Contains(S_AddToCart, text) THEN "cart"
  ELSE "none"

(***************************************************************************)
(* tenacity, line 356: retry_if_exception_type(TimeoutError),              *)
(* stop_after_attempt(2), reraise=True.                                    *)
(***************************************************************************)
(* ShouldRetry without retry_if_exception_type. *)
ShouldRetryAnyFailure(kind, attempt_number) == ~(attempt_number >= StopAfterAttempt)

ShouldRetry(kind, attempt_number) ==
  kind = "timeout" /\ ~(attempt_number >= StopAfterAttempt)

(* Reraise with reraise left at its default: tenacity raises RetryError. *)
ReraiseRetryError(kinds) == "RetryError"

(* reraise=True: what the caller receives is the last attempt's exception. *)
Reraise(kinds) == kinds[Len(kinds)]

(***************************************************************************)
(* State.                                                                  *)
(*   pc, runs, outcome      control point, runs started, how the last run  *)
(*                          of collect_epic_games ended                    *)
(*   ctx .. promotions      EpicAgent._ctx_cookies_is_available, _orders   *)
(*                          (each item reduced to its namespace),          *)
(*                          _namespaces, _promotions                       *)
(*   status                 the isloggedin attribute read in this run      *)
(*   purchased, catalog     the identifiers of PURCHASE items of the       *)
(*                          history last fetched; the list get_promotions  *)
(*                          returned to the _check_orders call just made   *)
(*   historyFetches, feedFetches   fetches made in this run                *)
(*   fetch                  how the history fetch of this run ended        *)
(*   attempt, exc, log, caught     tenacity's attempt number, the          *)
(*                          exceptions raised so far in this run (the last *)
(*                          one is in flight while pc = "retry"), the      *)
(*                          outcome collect_weekly_games logged, the       *)
(*                          exception line 150 caught                      *)
(*   idx .. aside_count     add_promotion_to_cart: position in urls,       *)
(*                          has_pending_cart_items, the label the loaded   *)
(*                          page shows on its purchase control, the count  *)
(*                          of side-panel buttons read                     *)
(*   carted, events         whether an item took the add-to-cart path in   *)
(*                          this attempt; what the instant checkout of the *)
(*                          current item has done so far                   *)
(*   depth .. emptied       re-invocations of _purchase_free_game so far,  *)
(*                          the budget of the current _empty_cart call,    *)
(*                          what the last _empty_cart call returned        *)
(*   passes .. paid0        of the current _empty_cart call: passes made,  *)
(*                          wishlist clicks issued, whether every click    *)
(*                          removed its line, paid lines at the call       *)
(*   cards, has_paid_free   the locals of the running pass of _empty_cart: *)
(*                          the cards of line 317 the loop has yet to      *)
(*                          finish (the current one first), has_paid_free  *)
(*   owned .. cartFree      the storefront: products in the library,       *)
(*                          promotion products in the cart, other paid and *)
(*                          other free cart lines                          *)
(***************************************************************************)
VARIABLES pc, runs, outcome,
          ctx, orders, namespaces, promotions,
          status, purchased, catalog, historyFetches, feedFetches, fetch,
          attempt, exc, log, caught,
          idx, has_pending, page_label, aside_count, carted, events,
          depth, wait_rerender, emptied, passes, wishlisted, effective, paid0,
          cards, has_paid_free,
          owned, inCart, cartPaid, cartFree

runVars == <<runs, outcome>>
agentVars == <<ctx, orders, namespaces, promotions>>
ghostVars == <<status, purchased, catalog, historyFetches, feedFetches, fetch>>
cwgVars == <<attempt, exc, log, caught>>
itemVars == <<idx, has_pending, page_label, aside_count, carted, events>>
cartVars == <<depth, wait_rerender, emptied, passes, wishlisted, effective, paid0,
              cards, has_paid_free>>
storeVars == <<owned, inCart, cartPaid, cartFree>>
vars == <<pc, runVars, agentVars, ghostVars, cwgVars, itemVars, cartVars, storeVars>>

Failures == { "timeout", "error" }

Init ==
  /\ pc = "idle" /\ runs = 0 /\ outcome = "none"
  /\ ctx = FALSE /\ orders = <<>> /\ namespaces = <<>> /\ promotions = <<>>
  /\ status = "unread" /\ purchased = {} /\ catalog = <<>>
  /\ historyFetches = 0 /\ feedFetches = 0 /\ fetch = "none"
  /\ attempt = 0 /\ exc = <<>> /\ log = "none" /\ caught = "none"
  /\ idx = 0 /\ has_pending = FALSE /\ page_label = <<>> /\ aside_count = 0
  /\ carted = FALSE /\ events = <<>>
  /\ depth = 0 /\ wait_rerender = 0 /\ emptied = "none"
  /\ passes = 0 /\ wishlisted = 0 /\ effective = TRUE /\ paid0 = 0
  /\ cards = <<>> /\ has_paid_free = FALSE
  /\ owned \in { {}, {"a"} } /\ inCart = {}
  /\ cartPaid \in 0..MaxPaid /\ cartFree \in 0..MaxFree

(***************************************************************************)
(* EpicAgent                                                               *)
(***************************************************************************)

(* An exception leaves collect_epic_games: nothing on its path catches it. *)
Escapes(kind) ==
  /\ pc' = "idle" /\ outcome' = "raised" /\ exc' = Append(exc, kind)
  /\ status' = "unread" /\ catalog' = <<>>

(* collect_epic_games is called; line 116. *)
CollectEpicGames ==
  /\ pc = "idle" /\ runs < MaxRuns
  /\ pc' = "sit_goto" /\ runs' = runs + 1 /\ outcome' = "running"
  /\ ctx' = FALSE
  /\ status' = "unread" /\ catalog' = <<>> /\ historyFetches' = 0 /\ feedFetches' = 0
  /\ fetch' = "none"
  /\ attempt' = 0 /\ exc' = <<>> /\ log' = "none" /\ caught' = "none"
  /\ UNCHANGED <<orders, namespaces, promotions, purchased, itemVars, cartVars, storeVars>>

(* _should_ignore_task, line 117: page.goto(URL_CLAIM). *)
ShouldIgnoreGoto ==
  /\ pc = "sit_goto"
  /\ \E r \in {"ok"} \cup Failures :
       \/ /\ r = "ok"
          /\ pc' = "sit_status"
          /\ UNCHANGED <<outcome, exc, status, catalog>>
       \/ /\ r \in Failures
          /\ Escapes(r)
  /\ UNCHANGED <<runs, agentVars, purchased, historyFetches, fetch, feedFetches,
                 attempt, log, caught, itemVars, cartVars, storeVars>>

(* _should_ignore_task, lines 118-122, and collect_epic_games, lines       *)
(* 133-134.  get_attribute returns the attribute's text, or None when the  *)
(* element carries no such attribute ("absent"), or raises.                *)
LoggedOut(s) == s = "false"

ShouldIgnoreStatus ==
  /\ pc = "sit_status"
  /\ \E s \in {"true", "false", "absent"} \cup Failures :
       \/ /\ s \in Failures
          /\ Escapes(s)
          /\ UNCHANGED ctx
       \/ /\ s \notin Failures /\ LoggedOut(s)
          /\ pc' = "idle" /\ outcome' = "session_invalid" /\ status' = s
          /\ UNCHANGED <<ctx, exc, catalog>>
       \/ /\ s \notin Failures /\ ~LoggedOut(s)
          /\ pc' = "sync" /\ status' = s /\ ctx' = TRUE
          /\ UNCHANGED <<outcome, exc, catalog>>
  /\ UNCHANGED <<runs, orders, namespaces, promotions, purchased, historyFetches, fetch,
                 feedFetches, attempt, log, caught, itemVars, cartVars, storeVars>>

(* _sync_order_history, lines 90-108.  With a cached ledger nothing is     *)
(* fetched.  Otherwise the fetch goes through ("ok"), or goto,             *)
(* text_content, json.loads or data["orders"] raises ("failed"), or the    *)
(* loop raises at order n + 1 after n orders were handled                  *)
(* ("record_failed"); line 108 stores what was collected until then.       *)
Cached(ords) == ords # <<>>

SyncOrderHistory ==
  /\ pc \in {"sync", "sync_again"}
  /\ \/ /\ Cached(orders)
        /\ UNCHANGED <<orders, purchased, historyFetches, fetch>>
     \/ /\ ~Cached(orders)
        /\ \/ \E history \in Histories :
                /\ orders' = CompletedOrders(history, Len(history))
                /\ purchased' = PurchaseNamespaces(history)
                /\ fetch' = "ok"
           \/ /\ orders' = <<>> /\ purchased' = {}
              /\ fetch' = "failed"
           \/ \E history \in Histories : \E n \in 0..(Len(history) - 1) :
                /\ orders' = CompletedOrders(history, n)
                /\ purchased' = PurchaseNamespaces(history)
                /\ fetch' = "record_failed"
        /\ historyFetches' = historyFetches + 1
  /\ pc' = IF pc = "sync" THEN "feed" ELSE "feed_again"
  /\ UNCHANGED <<runVars, ctx, namespaces, promotions, status, catalog, feedFetches,
                 cwgVars, itemVars, cartVars, storeVars>>

(* _check_orders, lines 112-113.  get_promotions raises (httpx, a missing  *)
(* key, a PromotionGame that does not validate), returns [] on a           *)
(* JSONDecodeError, or returns the promotions of the feed.                 *)
CheckOrders ==
  /\ pc \in {"feed", "feed_again"}
  /\ namespaces' = NamespacesOf(namespaces, orders)
  /\ feedFetches' = feedFetches + 1
  /\ \/ /\ Escapes("error")
        /\ UNCHANGED promotions
     \/ /\ catalog' = <<>>
        /\ promotions' = Outstanding(catalog', namespaces')
        /\ pc' = (IF pc = "feed" THEN "sit_ret" ELSE "recheck_ret")
        /\ UNCHANGED <<outcome, exc, status>>
     \/ /\ \E feed \in Feeds : catalog' = get_promotions(feed)
        /\ promotions' = Outstanding(catalog', namespaces')
        /\ pc' = (IF pc = "feed" THEN "sit_ret" ELSE "recheck_ret")
        /\ UNCHANGED <<outcome, exc, status>>
  /\ UNCHANGED <<runs, ctx, orders, purchased, historyFetches, fetch,
                 attempt, log, caught, itemVars, cartVars, storeVars>>

(* _should_ignore_task, line 124: whether the run has nothing to do. *)
IgnoreNever(proms) == FALSE

IgnoreTask(proms) == proms = <<>>

(* _should_ignore_task, lines 124-126, and collect_epic_games, lines       *)
(* 129-147: the return after the first _check_orders ("sit_ret"), with the *)
(* second call of _check_orders at lines 136-137, and lines 139-147 after  *)
(* that second call ("recheck_ret").                                       *)
ShouldIgnoreReturn ==
  /\ pc \in {"sit_ret", "recheck_ret"}
  /\ catalog' = <<>> /\ fetch' = "none"
  /\ \/ /\ pc = "sit_ret" /\ IgnoreTask(promotions)
        /\ pc' = "idle" /\ outcome' = "nothing"
     \/ /\ pc = "sit_ret" /\ ~IgnoreTask(promotions) /\ promotions = <<>>
        /\ pc' = "sync_again"
        /\ UNCHANGED outcome
     \/ /\ pc = "sit_ret" /\ ~IgnoreTask(promotions) /\ promotions # <<>>
        /\ pc' = "ceg_invoke"
        /\ UNCHANGED outcome
     \/ /\ pc = "recheck_ret" /\ promotions = <<>>
        /\ pc' = "idle" /\ outcome' = "nothing"
     \/ /\ pc = "recheck_ret" /\ promotions # <<>>
        /\ pc' = "ceg_invoke"
        /\ UNCHANGED outcome
  /\ UNCHANGED <<runs, agentVars, status, purchased, historyFetches, feedFetches,
                 cwgVars, itemVars, cartVars, storeVars>>

(***************************************************************************)
(* EpicGames                                                               *)
(***************************************************************************)
CurProduct == promotions[idx].url[2]

(* What the storefront shows on the purchase control of product p. *)
PageLabel(p, offer) ==
  IF p \in owned THEN S_InLibrary
  ELSE IF p \in inCart THEN S_ViewInCart
  ELSE offer

(* The buttons of the side panel, in document order. *)
AsideButtons == << page_label, S_Wishlist >>

ResetItem ==
  /\ idx' = 0 /\ has_pending' = FALSE /\ page_label' = <<>> /\ aside_count' = 0
  /\ carted' = FALSE /\ events' = <<>>
ResetScan == passes' = 0 /\ wishlisted' = 0 /\ effective' = TRUE /\ paid0' = 0
ResetCart ==
  /\ depth' = 0 /\ wait_rerender' = 0 /\ emptied' = "none" /\ ResetScan
  /\ cards' = <<>> /\ has_paid_free' = FALSE

(* An exception leaves the body of collect_weekly_games and reaches tenacity. *)
Raise(kind) == pc' = "retry" /\ exc' = Append(exc, kind) /\ ResetItem /\ ResetCart

(* continue, or the end of the loop body: the next url. *)
NextItem ==
  /\ pc' = "apc_loop" /\ idx' = idx + 1 /\ page_label' = <<>> /\ aside_count' = 0
  /\ events' = <<>>
  /\ UNCHANGED <<exc, cartVars>>

apcFrame == <<runVars, agentVars, ghostVars, attempt, log, caught>>

(* collect_epic_games, line 149: the call of collect_weekly_games; lines   *)
(* 358-359 and 248 of its first attempt.  What was recorded of the login   *)
(* indicator and of the fetched history is dropped here.                   *)
CollectWeeklyGames ==
  /\ pc = "ceg_invoke"
  /\ pc' = "apc_loop" /\ attempt' = 1 /\ idx' = 1 /\ has_pending' = FALSE
  /\ carted' = FALSE
  /\ status' = "unread" /\ purchased' = {}
  /\ UNCHANGED <<runVars, agentVars, catalog, historyFetches, fetch, feedFetches,
                 exc, log, caught, page_label, aside_count, events, cartVars, storeVars>>

(* add_promotion_to_cart, lines 250-251: page.goto(url). *)
AddGoto ==
  /\ pc = "apc_loop" /\ idx <= Len(promotions)
  /\ \/ /\ \E offer \in OfferLabels : page_label' = PageLabel(CurProduct, offer)
        /\ pc' = "apc_popup"
        /\ UNCHANGED <<exc, idx, has_pending, aside_count, carted, events, cartVars>>
     \/ \E r \in Failures : Raise(r)
  /\ UNCHANGED <<apcFrame, storeVars>>

(* lines 254-260: the content warning; every failure is swallowed. *)
AddPopup ==
  /\ pc = "apc_popup"
  /\ pc' = "apc_count"
  /\ UNCHANGED <<apcFrame, exc, itemVars, cartVars, storeVars>>

(* lines 263-268: btn_list.count(). *)
AddCount ==
  /\ pc = "apc_count"
  /\ \/ /\ \E n \in 0..Len(AsideButtons) : aside_count' = n
        /\ pc' = "apc_texts"
        /\ UNCHANGED <<exc, idx, has_pending, page_label, carted, events, cartVars>>
     \/ /\ NextItem
        /\ UNCHANGED <<has_pending, carted>>
     \/ Raise("error")
  /\ UNCHANGED <<apcFrame, storeVars>>

(* lines 270-277: the texts of the side-panel buttons, and the library test. *)
AddTexts ==
  /\ pc = "apc_texts"
  /\ \/ /\ aside_count > 0
        /\ \E r \in Failures : Raise(r)
     \/ /\ InLibrary(Texts(AsideButtons, aside_count))
        /\ NextItem
        /\ UNCHANGED <<has_pending, carted>>
     \/ /\ ~InLibrary(Texts(AsideButtons, aside_count))
        /\ pc' = "apc_status"
        /\ UNCHANGED <<exc, itemVars, cartVars>>
  /\ UNCHANGED <<apcFrame, storeVars>>

(* lines 280-289: purchase_btn.text_content(timeout=5000) and the test of  *)
(* the label.                                                              *)
AddStatus ==
  /\ pc = "apc_status"
  /\ \/ /\ NextItem
        /\ UNCHANGED <<has_pending, carted>>
     \/ Raise("error")
     \/ /\ NotAvailable(page_label)
        /\ NextItem
        /\ UNCHANGED <<has_pending, carted>>
     \/ /\ ~NotAvailable(page_label)
        /\ pc' = "apc_branch"
        /\ UNCHANGED <<exc, itemVars, cartVars>>
  /\ UNCHANGED <<apcFrame, storeVars>>

(* lines 292-303 and 308-310: the second read of the label (line 294)     *)
(* and the start of the click it decides on, of "Get" (line 298) or of     *)
(* "Add To Cart" (line 303).  The page answers the second read on its own: *)
(* text is what it shows then, which need not be what line 282 read.  A    *)
(* text with neither marker ends the item without a click, and a read that *)
(* raises is caught at line 308.                                           *)
AddBranch ==
  /\ pc = "apc_branch"
  /\ \/ /\ NextItem
        /\ UNCHANGED <<has_pending, carted, storeVars>>
     \/ \E offer \in OfferLabels :
          LET text == PageLabel(CurProduct, offer) IN
          \/ /\ Branch(text) = "instant"
             /\ pc' = "apc_get"
             /\ UNCHANGED <<exc, itemVars, cartVars, storeVars>>
          \/ /\ Branch(text) = "cart"
             /\ pc' = "apc_add"
             /\ UNCHANGED <<exc, itemVars, cartVars, storeVars>>
          \/ /\ Branch(text) = "none"
             /\ NextItem
             /\ UNCHANGED <<has_pending, carted, storeVars>>
  /\ UNCHANGED apcFrame

(* lines 298-299, 207 and 308-310: the click of "Get" returns and          *)
(* _handle_instant_checkout builds its AgentV.  When the click or AgentV() *)
(* raises, line 308 catches: the item is over, and nothing is reloaded.    *)
AddGet ==
  /\ pc = "apc_get"
  /\ \/ /\ pc' = "ic_locate"
        /\ UNCHANGED <<exc, itemVars, cartVars>>
     \/ /\ NextItem
        /\ UNCHANGED <<has_pending, carted>>
  /\ UNCHANGED <<apcFrame, storeVars>>

(* lines 303 and 308-310: the click of "Add To Cart" returns and the       *)
(* product is in the cart.  When the click raises, line 308 catches and    *)
(* the cart is as it was.                                                  *)
AddCart ==
  /\ pc = "apc_add"
  /\ \/ /\ inCart' = inCart \cup {CurProduct}
        /\ pc' = "apc_expect" /\ carted' = TRUE
        /\ UNCHANGED <<exc, idx, has_pending, page_label, aside_count, events,
                       cartVars, owned, cartPaid, cartFree>>
     \/ /\ NextItem
        /\ UNCHANGED <<has_pending, carted, storeVars>>
  /\ UNCHANGED apcFrame

(* lines 304-306: expect(...).to_have_text("View In Cart") under           *)
(* suppress(TimeoutError).  A failed expectation raises AssertionError,    *)
(* which suppress(TimeoutError) lets through to line 308.                  *)
Suppressed(r) == r \in {"ok", "timeout"}

AddExpect ==
  /\ pc = "apc_expect"
  /\ \E r \in {"ok", "timeout", "assertion", "error"} :
       \/ /\ Suppressed(r)
          /\ has_pending' = TRUE /\ UNCHANGED carted
       \/ /\ ~Suppressed(r)
          /\ UNCHANGED <<has_pending, carted>>
  /\ NextItem
  /\ UNCHANGED <<apcFrame, storeVars>>

(* _handle_instant_checkout, lines 204-245.  events lists what the call    *)
(* has done so far: "click" for a click of the confirm control, "gate"     *)
(* for the return of wait_for_challenge, "visible" or "gone" for what      *)
(* is_visible answered, "closed" or "wait_timeout" for the hidden-wait,    *)
(* "raised" for an exception that line 243 caught, "reload" for the        *)
(* reload of line 245.                                                     *)
icFrame == <<apcFrame, exc, idx, has_pending, page_label, aside_count, carted, cartVars>>

Caught(what) == pc' = "ic_reload" /\ events' = Append(events, what)

(* line 211: _active_purchase_container. *)
InstantLocate ==
  /\ pc = "ic_locate"
  /\ \/ pc' = "ic_click" /\ UNCHANGED events
     \/ Caught("raised")
  /\ UNCHANGED <<icFrame, storeVars>>

(* lines 214-215: the first click of the confirm control. *)
InstantClick ==
  /\ pc = "ic_click"
  /\ \/ pc' = "ic_challenge" /\ events' = Append(events, "click")
     \/ Caught("raised")
  /\ UNCHANGED <<icFrame, storeVars>>

(* lines 220-223: wait_for_timeout(3000), agent.wait_for_challenge(). *)
InstantChallenge ==
  /\ pc = "ic_challenge"
  /\ \/ pc' = "ic_visible" /\ events' = Append(events, "gate")
     \/ Caught("raised")
  /\ UNCHANGED <<icFrame, storeVars>>

ClickAgainAlways(visible) == TRUE

(* line 228: whether the confirm control is clicked again. *)
ClickAgain(visible) == visible

Seen(visible) == IF visible THEN "visible" ELSE "gone"

(* lines 228-230: is_visible(), and the second click when it is. *)
InstantRecheck ==
  /\ pc = "ic_visible"
  /\ \/ \E visible \in BOOLEAN :
          \/ /\ ClickAgain(visible)
             /\ pc' = "ic_hidden"
             /\ events' = events \o << Seen(visible), "click" >>
          \/ /\ ClickAgain(visible)
             /\ Caught(Seen(visible))
          \/ /\ ~ClickAgain(visible)
             /\ pc' = "ic_hidden"
             /\ events' = Append(events, Seen(visible))
     \/ Caught("raised")
  /\ UNCHANGED <<icFrame, storeVars>>

(* line 239: the failure of the hidden-wait that is logged and goes no     *)
(* further; expect raises AssertionError when its timeout passes.          *)
WaitTimeoutLogged(r) == r = "assertion"

(* lines 235-240: expect(payment_btn).to_be_hidden(timeout=20000).  The    *)
(* window closes when the order is placed.                                 *)
InstantHidden ==
  /\ pc = "ic_hidden"
  /\ \/ /\ owned' = owned \cup {CurProduct}
        /\ pc' = "ic_done" /\ events' = Append(events, "closed")
        /\ UNCHANGED <<inCart, cartPaid, cartFree>>
     \/ /\ \E r \in {"assertion", "error"} :
             \/ /\ WaitTimeoutLogged(r)
                /\ pc' = "ic_done" /\ events' = Append(events, "wait_timeout")
             \/ /\ ~WaitTimeoutLogged(r)
                /\ Caught(IF r = "assertion" THEN "wait_timeout" ELSE "raised")
        /\ UNCHANGED storeVars
  /\ UNCHANGED icFrame

(* lines 243-245: page.reload(); when it raises, line 308 catches. *)
InstantReload ==
  /\ pc = "ic_reload"
  /\ pc' = "ic_done" /\ events' = Append(events, "reload")
  /\ UNCHANGED <<icFrame, storeVars>>

(* add_promotion_to_cart, lines 299-310: _handle_instant_checkout is over  *)
(* and the loop goes on with the next url.                                 *)
InstantReturn ==
  /\ pc = "ic_done"
  /\ NextItem
  /\ UNCHANGED <<apcFrame, has_pending, carted, storeVars>>

(* add_promotion_to_cart, line 312, and collect_weekly_games, lines        *)
(* 361-369.                                                                *)
AddReturn ==
  /\ pc = "apc_loop" /\ idx > Len(promotions)
  /\ \/ /\ has_pending
        /\ pc' = "pfg_goto"
        /\ UNCHANGED log
     \/ /\ ~has_pending
        /\ pc' = "ceg_done" /\ log' = "instant_success"
  /\ ResetItem
  /\ UNCHANGED <<runVars, agentVars, ghostVars, attempt, exc, caught, cartVars, storeVars>>

(* _purchase_free_game, line 337: page.goto(URL_CART), and the call of     *)
(* _empty_cart with its default budget.                                    *)
PurchaseGoto ==
  /\ pc = "pfg_goto"
  /\ \/ /\ pc' = "ec_cards" /\ wait_rerender' = WaitRerender /\ paid0' = cartPaid
        /\ UNCHANGED <<exc, itemVars, depth, emptied, passes, wishlisted, effective,
                       cards, has_paid_free>>
     \/ \E r \in Failures : Raise(r)
  /\ UNCHANGED <<apcFrame, storeVars>>

(* _empty_cart, lines 314-334.  The call is followed from await to await:  *)
(* pc names the call the code is suspended in,                              *)
(*   ec_cards  page.query_selector_all of line 317,                         *)
(*   ec_free   card.query_selector of line 319, for the first of cards,     *)
(*   ec_btn    card.query_selector of line 322,                             *)
(*   ec_click  wishlist_btn.click() of line 325,                            *)
(*   ec_wait   page.wait_for_timeout(2000) of line 329,                     *)
(* and each action is the return of that call with the code up to the next  *)
(* await.  A card is "paid", "free" (another free line) or the product of   *)
(* a promotion in the cart, which carries the Free marker too.  A click     *)
(* removes its line or leaves it.  passes, wishlisted and effective record  *)
(* the passes ended, the clicks that returned and whether every click so    *)
(* far removed its line; paid0 is the number of paid lines the cart held    *)
(* when _empty_cart was called.                                             *)
Rescan(paid_free, budget) == paid_free /\ budget # 0

FreeLines == cartFree + Cardinality(inCart)

CardKinds == { "paid", "free" } \cup inCart

Count(s, c) == Cardinality({ i \in 1..Len(s) : s[i] = c })

(* line 317: the cards of the cart page, in any document order. *)
CartCards ==
  { s \in [1..(cartPaid + FreeLines) -> CardKinds] :
      /\ Count(s, "paid") = cartPaid
      /\ Count(s, "free") = cartFree
      /\ \A p \in inCart : Count(s, p) = 1 }

(* line 319: whether the card holds a span with the text Free. *)
is_free(card) == card # "paid"

(* lines 331 and 334: _empty_cart returns to line 339, which drops the value. *)
EmptyCartReturn(value) ==
  /\ pc' = "pfg_click" /\ emptied' = value /\ wait_rerender' = 0
  /\ passes' = passes + 1
  /\ cards' = <<>> /\ has_paid_free' = FALSE

(* lines 318 and 327-331: the loop goes to the next card; after the last    *)
(* one the pass waits for the re-render or returns True.                    *)
NextCard(rest, paid_free) ==
  \/ /\ rest # <<>>
     /\ pc' = "ec_free" /\ cards' = rest /\ has_paid_free' = paid_free
     /\ UNCHANGED <<wait_rerender, emptied, passes>>
  \/ /\ rest = <<>> /\ Rescan(paid_free, wait_rerender)
     /\ pc' = "ec_wait" /\ wait_rerender' = wait_rerender - 1
     /\ cards' = <<>> /\ has_paid_free' = paid_free
     /\ UNCHANGED <<emptied, passes>>
  \/ /\ rest = <<>> /\ ~Rescan(paid_free, wait_rerender)
     /\ EmptyCartReturn("true")

(* lines 332-334: a TimeoutError of the awaited call is logged and False is *)
(* returned; any other exception leaves _empty_cart.                        *)
EmptyCartRaises ==
  \/ /\ EmptyCartReturn("false")
     /\ UNCHANGED <<exc, itemVars, depth, wishlisted, effective, paid0>>
  \/ Raise("error")

EmptyCartCards ==
  /\ pc = "ec_cards"
  /\ \/ /\ \E s \in CartCards : NextCard(s, FALSE)
        /\ UNCHANGED <<exc, itemVars, depth, wishlisted, effective, paid0>>
     \/ EmptyCartRaises
  /\ UNCHANGED <<apcFrame, storeVars>>

EmptyCartFree ==
  /\ pc = "ec_free"
  /\ \/ /\ is_free(Head(cards))
        /\ NextCard(Tail(cards), has_paid_free)
        /\ UNCHANGED <<exc, itemVars, depth, wishlisted, effective, paid0>>
     \/ /\ ~is_free(Head(cards))
        /\ pc' = "ec_btn" /\ has_paid_free' = TRUE
        /\ UNCHANGED <<exc, itemVars, depth, wait_rerender, emptied, passes, wishlisted,
                       effective, paid0, cards>>
     \/ EmptyCartRaises
  /\ UNCHANGED <<apcFrame, storeVars>>

EmptyCartButton ==
  /\ pc = "ec_btn"
  /\ \/ /\ pc' = "ec_click"
        /\ UNCHANGED <<exc, itemVars, cartVars>>
     \/ EmptyCartRaises
  /\ UNCHANGED <<apcFrame, storeVars>>

(* the line of the card leaves the cart *)
Removed(card) ==
  /\ cartPaid' = IF card = "paid" THEN cartPaid - 1 ELSE cartPaid
  /\ cartFree' = IF card = "free" THEN cartFree - 1 ELSE cartFree
  /\ inCart' = inCart \ {card}

EmptyCartClick ==
  /\ pc = "ec_click"
  /\ \/ /\ \/ Removed(Head(cards)) /\ UNCHANGED effective
           \/ UNCHANGED <<inCart, cartPaid, cartFree>> /\ effective' = FALSE
        /\ wishlisted' = wishlisted + 1
        /\ NextCard(Tail(cards), has_paid_free)
        /\ UNCHANGED <<exc, itemVars, depth, paid0>>
     \/ EmptyCartRaises /\ UNCHANGED <<inCart, cartPaid, cartFree>>
  /\ UNCHANGED <<apcFrame, owned>>

(* line 330: the wait is over and _empty_cart calls itself. *)
EmptyCartWait ==
  /\ pc = "ec_wait"
  /\ \/ /\ pc' = "ec_cards" /\ passes' = passes + 1 /\ has_paid_free' = FALSE
        /\ UNCHANGED <<exc, itemVars, depth, wait_rerender, emptied, wishlisted,
                       effective, paid0, cards>>
     \/ EmptyCartRaises
  /\ UNCHANGED <<apcFrame, storeVars>>

(* _purchase_free_game, line 342: the click of "Check Out". *)
PurchaseClick ==
  /\ pc = "pfg_click"
  /\ \/ /\ pc' = "pfg_license" /\ emptied' = "none" /\ ResetScan
        /\ UNCHANGED <<exc, itemVars, depth, wait_rerender, cards, has_paid_free>>
     \/ \E r \in Failures : Raise(r)
  /\ UNCHANGED <<apcFrame, storeVars>>

(* line 343: _agree_license; a TimeoutError is suppressed. *)
PurchaseLicense ==
  /\ pc = "pfg_license"
  /\ \/ /\ pc' = "pfg_locate"
        /\ UNCHANGED <<exc, itemVars, cartVars>>
     \/ Raise("error")
  /\ UNCHANGED <<apcFrame, storeVars>>

(* line 347: _active_purchase_container. *)
PurchaseLocate ==
  /\ pc = "pfg_locate"
  /\ \/ pc' = "pfg_uk"
     \/ pc' = "pfg_reload"
  /\ UNCHANGED <<apcFrame, exc, itemVars, cartVars, storeVars>>

(* line 349: _uk_confirm_order; a TimeoutError is suppressed. *)
PurchaseUk ==
  /\ pc = "pfg_uk"
  /\ \/ pc' = "pfg_challenge"
     \/ pc' = "pfg_reload"
  /\ UNCHANGED <<apcFrame, exc, itemVars, cartVars, storeVars>>

(* line 350: agent.wait_for_challenge(). *)
PurchaseChallenge ==
  /\ pc = "pfg_challenge"
  /\ \/ pc' = "cwg_wait"
     \/ pc' = "pfg_reload"
  /\ UNCHANGED <<apcFrame, exc, itemVars, cartVars, storeVars>>

(* lines 351-354: page.reload() and the re-invocation, which the code      *)
(* bounds nowhere.  The model follows a run through MaxReinvoke            *)
(* re-invocations and no further.                                          *)
PurchaseReload ==
  /\ pc = "pfg_reload"
  /\ \/ /\ depth < MaxReinvoke
        /\ pc' = "pfg_goto" /\ depth' = depth + 1
        /\ UNCHANGED <<exc, itemVars, wait_rerender, emptied, passes, wishlisted, effective,
                       paid0, cards, has_paid_free>>
     \/ \E r \in Failures : Raise(r)
  /\ UNCHANGED <<apcFrame, storeVars>>

(* collect_weekly_games, lines 363-367: wait_for_url(URL_CART_SUCCESS).    *)
(* The storefront shows the success page when the order is placed: the     *)
(* lines of the cart are then bought.                                      *)
WaitUrl ==
  /\ pc = "cwg_wait"
  /\ \/ /\ pc' = "ceg_done" /\ log' = "cart_success"
        /\ owned' = owned \cup inCart /\ inCart' = {} /\ cartPaid' = 0 /\ cartFree' = 0
        /\ ResetCart
        /\ UNCHANGED <<exc, itemVars>>
     \/ /\ pc' = "ceg_done" /\ log' = "cart_warning"
        /\ ResetCart
        /\ UNCHANGED <<exc, itemVars, storeVars>>
     \/ /\ Raise("error")
        /\ UNCHANGED <<log, storeVars>>
  /\ UNCHANGED <<runVars, agentVars, ghostVars, attempt, caught>>

(* tenacity, line 356, and collect_epic_games, lines 150-151. *)
Retry ==
  /\ pc = "retry"
  /\ \/ /\ ShouldRetry(exc[Len(exc)], attempt)
        /\ pc' = "apc_loop" /\ attempt' = attempt + 1 /\ idx' = 1
        /\ UNCHANGED <<exc, caught, has_pending, page_label, aside_count, carted, events>>
     \/ /\ ~ShouldRetry(exc[Len(exc)], attempt)
        /\ pc' = "ceg_done" /\ caught' = Reraise(exc)
        /\ UNCHANGED <<attempt, exc, itemVars>>
  /\ UNCHANGED <<runVars, agentVars, ghostVars, log, cartVars, storeVars>>

(* collect_epic_games, line 153. *)
Completed ==
  /\ pc = "ceg_done"
  /\ pc' = "idle" /\ outcome' = "completed"
  /\ UNCHANGED <<runs, agentVars, ghostVars, cwgVars, itemVars, cartVars, storeVars>>

(***************************************************************************)
(* Spec follows one run of collect_epic_games on a fresh EpicAgent, with   *)
(* any cart and library.  SpecAgent follows one EpicAgent through MaxRuns  *)
(* runs, each with every step of EpicGames, from an empty library and a   *)
(* cart of at most one paid line.                                          *)
(***************************************************************************)
FirstRun == runs = 0 /\ CollectEpicGames

Next ==
  \/ FirstRun \/ ShouldIgnoreGoto \/ ShouldIgnoreStatus
  \/ SyncOrderHistory \/ CheckOrders \/ ShouldIgnoreReturn
  \/ CollectWeeklyGames \/ AddGoto \/ AddPopup \/ AddCount \/ AddTexts
  \/ AddStatus \/ AddBranch \/ AddGet \/ AddCart \/ AddExpect
  \/ InstantLocate \/ InstantClick \/ InstantChallenge \/ InstantRecheck
  \/ InstantHidden \/ InstantReload \/ InstantReturn
  \/ AddReturn \/ PurchaseGoto \/ EmptyCartCards \/ EmptyCartFree \/ EmptyCartButton
  \/ EmptyCartClick \/ EmptyCartWait \/ PurchaseClick
  \/ PurchaseLicense \/ PurchaseLocate \/ PurchaseUk \/ PurchaseChallenge
  \/ PurchaseReload \/ WaitUrl \/ Retry \/ Completed

Spec == Init /\ [][Next]_vars

InitAgent == Init /\ owned = {} /\ cartPaid <= 1 /\ cartFree = 0

NextAgent ==
  \/ CollectEpicGames \/ ShouldIgnoreGoto \/ ShouldIgnoreStatus
  \/ SyncOrderHistory \/ CheckOrders \/ ShouldIgnoreReturn
  \/ CollectWeeklyGames \/ AddGoto \/ AddPopup \/ AddCount \/ AddTexts
  \/ AddStatus \/ AddBranch \/ AddGet \/ AddCart \/ AddExpect
  \/ InstantLocate \/ InstantClick \/ InstantChallenge \/ InstantRecheck
  \/ InstantHidden \/ InstantReload \/ InstantReturn
  \/ AddReturn \/ PurchaseGoto \/ EmptyCartCards \/ EmptyCartFree \/ EmptyCartButton
  \/ EmptyCartClick \/ EmptyCartWait \/ PurchaseClick
  \/ PurchaseLicense \/ PurchaseLocate \/ PurchaseUk \/ PurchaseChallenge
  \/ PurchaseReload \/ WaitUrl \/ Retry \/ Completed

SpecAgent == InitAgent /\ [][NextAgent]_vars

(***************************************************************************)
(* Claims                                                                  *)
(***************************************************************************)
SuccessLogs == { "cart_success", "instant_success" }

(* C1: on the cart-checkout path "Check Out" is clicked only while the     *)
(* cart holds no non-free line, whatever the cart was at the start,        *)
(* whatever "Move to wishlist" did, and on every re-invocation.  The state *)
(* with pc = "pfg_license" is the one the click of line 342 leaves.        *)
C1_CheckoutOnlyWithCleanCart == pc = "pfg_license" => cartPaid = 0

(* C2: collect_weekly_games logs a success ("Successfully collected cart   *)
(* games" or "Process completed") only if no item added to the cart        *)
(* during the call is still in the cart, waiting for the cart checkout.    *)
(* The cart holds no promotion item when the call starts.                  *)
C2_NoPrematureSuccess == log \in SuccessLogs => inCart = {}

(* C3: collect_weekly_games is invoked only if the login indicator read    *)
(* "true" and the outstanding list is non-empty; when the indicator reads  *)
(* "false" or is absent the run stops, with no history fetch and no feed   *)
(* fetch.                                                                  *)
C3_CheckoutOnlyWhenLoggedIn ==
  /\ pc = "ceg_invoke" => status = "true" /\ promotions # <<>>
  /\ status \in {"false", "absent"} =>
       pc = "idle" /\ historyFetches = 0 /\ feedFetches = 0 /\ attempt = 0

(* C4: no failure of a step of the run leaves collect_epic_games: the call *)
(* returns normally.                                                       *)
C4_NoFailureEscapes == outcome # "raised"

(* C5: within one call of collect_weekly_games the body runs at most 2     *)
(* times, each attempt raising at most once; a second attempt is there     *)
(* only if the first raised a timeout; a failure of any other kind is the  *)
(* last one raised, no attempt follows it, and raised by the first attempt *)
(* it reaches the caller after exactly one attempt.                        *)
C5_RetryBound ==
  attempt >= 1 =>
    /\ attempt <= 2
    /\ Len(exc) <= attempt
    /\ attempt = 2 => Len(exc) >= 1 /\ exc[1] = "timeout"
    /\ \A k \in DOMAIN exc : exc[k] # "timeout" => k = Len(exc) /\ k = attempt
    /\ (exc # <<>> /\ exc[1] # "timeout" /\ pc # "retry") =>
         attempt = 1 /\ caught = exc[1]

(* A timeout in attempt 1, then another kind of failure in attempt 2,     *)
(* which reached line 150.                                                 *)
C5_Witness ==
  attempt = 2 /\ exc = <<"timeout", "error">> /\ caught = "error" /\ outcome = "completed"

(* C6: a timeout in attempt 1 and an attempt 2 that completes: the call    *)
(* has returned normally after exactly 2 attempts, line 150 caught         *)
(* nothing and the run ends as completed; a timeout in both attempts: the  *)
(* caller receives that TimeoutError itself and there is no third attempt. *)
C6_RetryOutcome ==
  /\ (attempt >= 1 /\ exc = <<"timeout">> /\ pc \in {"ceg_done", "idle"}) =>
       /\ attempt = 2 /\ caught = "none" /\ log # "none"
       /\ pc = "idle" => outcome = "completed"
  /\ (attempt >= 1 /\ exc = <<"timeout", "timeout">> /\ pc # "retry") =>
       /\ attempt = 2 /\ caught = "timeout"
       /\ pc = "idle" => outcome = "completed"

(* Scenario E: timeout, then an attempt that collects the cart games. *)
C6_Witness ==
  /\ outcome = "completed" /\ exc = <<"timeout">> /\ attempt = 2
  /\ log = "cart_success" /\ caught = "none"

(* out is the sublist of in made of the elements whose namespace is not in *)
(* the set ledger, in order and with repetitions.                          *)
RECURSIVE IsUnownedPart(_, _, _)
IsUnownedPart(out, in, ledger) ==
  IF in = <<>> THEN out = <<>>
  ELSE IF Head(in).namespace \notin ledger
       THEN out # <<>> /\ Head(out) = Head(in) /\ IsUnownedPart(Tail(out), Tail(in), ledger)
       ELSE IsUnownedPart(out, Tail(in), ledger)

Ledger == { orders[i] : i \in DOMAIN orders }

(* C7: when _check_orders returns, _promotions is exactly the part of the  *)
(* catalog this call fetched whose namespace is not in the ledger, and     *)
(* nothing of a previous call's list.                                      *)
C7_OutstandingIsCatalogMinusLedger ==
  pc = "sit_ret" => IsUnownedPart(promotions, catalog, Ledger)

(* The second call on one agent: a catalog of two promotions, one of them  *)
(* owned, and a ledger kept from the first run.                            *)
C7_Witness ==
  /\ pc = "sit_ret" /\ runs = 2 /\ historyFetches = 0
  /\ Len(catalog) = 2 /\ Len(promotions) = 1

(* C8: every identifier of the ledger (_orders and _namespaces) has length *)
(* 32; _orders changes only in _sync_order_history, and what it then holds *)
(* are items of PURCHASE orders of the history just fetched; _namespaces   *)
(* holds identifiers of _orders only.                                      *)
C8_LedgerOnlyValidPurchases ==
  /\ [] /\ \A i \in DOMAIN orders : Len(orders[i]) = 32
        /\ \A i \in DOMAIN namespaces :
             Len(namespaces[i]) = 32 /\ namespaces[i] \in Ledger
  /\ [][ orders' # orders =>
           /\ pc \in {"sync", "sync_again"}
           /\ \A i \in DOMAIN orders' : orders'[i] \in purchased'
       ]_vars

(* A parse that failed part-way: NsA was kept, and NsB is an item of a     *)
(* PURCHASE order the loop never reached.                                  *)
C8_Witness ==
  /\ orders = <<NsA>> /\ namespaces = <<NsA>>
  /\ NsB \in purchased

(* C9: the purchase control is never clicked when its label contains "Buy  *)
(* Now" or neither "Get" nor "Add To Cart"; a label with "Get" takes the   *)
(* instant checkout; a label with "Add To Cart" and no "Get" takes the     *)
(* cart path, which marks cart items pending.  page_label is the label     *)
(* line 282 read, the one the skip of line 287 is decided on.              *)
C9_BranchByLabel ==
  [][ /\ (pc = "apc_branch" /\ pc' \in {"apc_get", "apc_add"}) =>
           /\ ~Contains(S_BuyNow, page_label)
           /\ Contains(S_Get, page_label) \/ Contains(S_AddToCart, page_label)
           /\ pc' = "apc_get" <=> Contains(S_Get, page_label)
      /\ pc = "apc_expect" => has_pending' ]_vars

(* C10: a timeout while resolving an element of an item (button count,     *)
(* button text, purchase label, click) does not leave                      *)
(* add_promotion_to_cart: the loop goes on with this item or the next.     *)
C10_ItemFailureIsolated ==
  [][ (pc \in {"apc_count", "apc_texts", "apc_status", "apc_branch", "apc_get", "apc_add",
               "apc_expect"}) =>
        ~(pc' = "retry" /\ exc'[Len(exc')] = "timeout") ]_vars


(* C11: _empty_cart with its default budget makes at most 30 passes, makes *)
(* another pass only after a pass that found a paid line, and, when every  *)
(* wishlist click removed its line, returns with no paid line left: the    *)
(* cart then holds at most its free lines.                                 *)
C11_ReconcilerWithinBudget ==
  /\ passes <= 30
  /\ (pc = "ec_cards" /\ passes > 0) => wishlisted >= passes
  /\ pc = "ec_wait" => has_paid_free
  /\ (pc = "pfg_click" /\ effective) => cartPaid + FreeLines <= FreeLines

(* C12: in every pass of _empty_cart a card with the Free marker is passed *)
(* by without a click and no step changes the free lines; every card of    *)
(* the cart without the marker is clicked, once, before the pass ends,     *)
(* however it ends.  When _empty_cart has returned, a cart that held 2     *)
(* free lines and 1 paid line holds exactly 2 lines and exactly 1 click    *)
(* was issued, and a cart that held no paid line (the empty cart among     *)
(* them) has seen no click.                                                *)
ScanStages == { "ec_cards", "ec_free", "ec_btn", "ec_click", "ec_wait" }

(* the cards without the marker the running pass has not clicked yet *)
Unclicked ==
  IF pc = "ec_cards" THEN cartPaid
  ELSE IF pc = "ec_wait" THEN 0
  ELSE Count(cards, "paid")

C12_OnlyPaidLinesWishlisted ==
  /\ [][ /\ pc \in ScanStages => (cartFree' = cartFree /\ inCart' = inCart)
         /\ wishlisted' > wishlisted =>
              (pc = "ec_click" /\ Head(cards) = "paid" /\ wishlisted' = wishlisted + 1)
         /\ (pc = "ec_free" /\ Head(cards) # "paid") => pc' \notin {"ec_btn", "ec_click"}
         /\ (pc \in ScanStages /\ pc' \notin {"ec_free", "ec_btn", "ec_click"}) =>
              \/ Unclicked = 0
              \/ pc = "ec_click" /\ Unclicked = 1 /\ wishlisted' = wishlisted + 1
       ]_vars
  /\ [] /\ (pc = "pfg_click" /\ paid0 = 1 /\ FreeLines = 2) =>
             cartPaid + FreeLines = 2 /\ wishlisted = 1
        /\ (pc = "pfg_click" /\ paid0 = 0) => wishlisted = 0

(* C13: when _empty_cart has used its whole budget and the cart still      *)
(* holds a paid line, it returns a failure and not True; whatever it       *)
(* returns, _purchase_free_game goes on to the click of "Check Out".       *)
C13_ExhaustedBudgetIsSoftFailure ==
  /\ (pc = "pfg_click" /\ passes > WaitRerender /\ cartPaid > 0) => emptied = "false"
  /\ emptied # "none" => pc = "pfg_click"
(* C14: when the side-panel texts read for an item contain "In Library",   *)
(* the item is left at once: the purchase control is not clicked, no       *)
(* instant checkout starts, the item is not marked pending and the         *)
(* storefront is untouched.  The purchase control of an item that is in    *)
(* the library is clicked in no attempt, so an item claimed in attempt 1   *)
(* is not purchased again in attempt 2.                                    *)
ClickStages ==
  { "apc_branch", "apc_get", "apc_add", "apc_expect", "ic_locate", "ic_click", "ic_challenge",
    "ic_visible", "ic_hidden" }

C14_InLibrarySkipped ==
  /\ [][ (pc = "apc_texts" /\ Contains(S_InLibrary, Texts(AsideButtons, aside_count))) =>
           /\ pc' \in {"apc_loop", "retry"}
           /\ has_pending' => has_pending
           /\ carted' => carted
           /\ events' = <<>>
           /\ storeVars' = storeVars
       ]_vars
  /\ [] (pc \in ClickStages => ~Contains(S_InLibrary, page_label) /\ CurProduct \notin owned)

C14_Witness ==
  /\ attempt = 2 /\ pc = "apc_texts" /\ aside_count = 2
  /\ Contains(S_InLibrary, Texts(AsideButtons, aside_count))
  /\ CurProduct = "b" /\ "b" \in owned

(* C15: in one instant checkout the confirm control is clicked at most     *)
(* twice; the first click comes before the return of wait_for_challenge,   *)
(* the second one only right after is_visible answered "visible" once the  *)
(* gate has returned, and the hidden-wait begins after one click when the  *)
(* control was gone and after two when it was visible; nothing is clicked  *)
(* after the hidden-wait.                                                  *)
Clicks == Cardinality({ i \in DOMAIN events : events[i] = "click" })

C15_ConfirmClickedAtMostTwice ==
  /\ Clicks <= 2
  /\ \A i \in DOMAIN events :
       /\ events[i] = "click" =>
            i = 1 \/ (i = 4 /\ events[2] = "gate" /\ events[3] = "visible")
       /\ events[i] = "gate" => i = 2 /\ events[1] = "click"
       /\ events[i] \in {"closed", "wait_timeout"} =>
            \A j \in DOMAIN events : j > i => events[j] # "click"
  /\ pc = "ic_hidden" =>
       \/ events = << "click", "gate", "visible", "click" >>
       \/ events = << "click", "gate", "gone" >>

C15_Witness ==
  pc = "ic_done" /\ events = << "click", "gate", "visible", "click", "closed" >>

(* C16: no step of the instant checkout, from the click of "Get" on,       *)
(* leaves the per-item loop or adds an exception for tenacity; the path    *)
(* ends with the next url.  A hidden-wait that times out ends it without a *)
(* reload; every other exception ends it with a reload, and the item is    *)
(* not visited again in the attempt.                                       *)
InstantStages ==
  { "apc_get", "ic_locate", "ic_click", "ic_challenge", "ic_visible", "ic_hidden",
    "ic_reload", "ic_done" }

Last(ev) == ev[Len(ev)]

C16_InstantFailuresContained ==
  /\ [][ (pc \in InstantStages) =>
           /\ pc' \in InstantStages \cup {"apc_loop"}
           /\ exc' = exc /\ attempt' = attempt /\ caught' = caught
           /\ pc' = "apc_loop" => pc = "ic_done" /\ idx' = idx + 1
           /\ pc' # "apc_loop" => idx' = idx
       ]_vars
  /\ [] (pc = "ic_done" =>
           /\ Last(events) \in {"closed", "wait_timeout", "reload"}
           /\ Last(events) = "wait_timeout" => \A i \in DOMAIN events : events[i] # "raised"
           /\ (\E i \in DOMAIN events : events[i] = "wait_timeout") =>
                Last(events) = "wait_timeout"
           /\ (\E i \in DOMAIN events : events[i] = "raised") => Last(events) = "reload"
           /\ (Last(events) = "reload" /\ Len(events) > 1) =>
                events[Len(events) - 1] \in {"raised", "visible"})

(* C17: an exception raised by the click of "Check Out", by the license    *)
(* step, by the resolution of the confirm control, by the regional confirm *)
(* click or by wait_for_challenge is caught in _purchase_free_game: none   *)
(* reaches tenacity, the page is reloaded and the sequence starts again at *)
(* the cart page.                                                          *)
C17_CheckoutFailuresReinvoke ==
  [][ /\ (pc \in {"pfg_click", "pfg_license", "pfg_locate", "pfg_uk", "pfg_challenge"}) =>
           pc' # "retry"
      /\ (pc = "pfg_reload" /\ pc' # "retry") => pc' = "pfg_goto"
    ]_vars

(* C18: in one attempt the cart checkout starts only when the per-item     *)
(* loop has gone through every url, is started by collect_weekly_games if  *)
(* and only if some item took the add-to-cart path in the attempt, and     *)
(* once it has run the attempt visits no url again.                        *)
CartStages ==
  { "pfg_goto", "ec_cards", "ec_free", "ec_btn", "ec_click", "ec_wait", "pfg_click", "pfg_license", "pfg_locate", "pfg_uk",
    "pfg_challenge", "pfg_reload", "cwg_wait" }

C18_CartCheckoutAfterLoop ==
  [][ /\ (pc' = "pfg_goto" /\ pc # "pfg_reload") =>
           pc = "apc_loop" /\ idx > Len(promotions)
      /\ (pc = "apc_loop" /\ idx > Len(promotions)) => (pc' = "pfg_goto" <=> carted)
      /\ (pc \in CartStages /\ pc' = "apc_loop") => attempt' = attempt + 1
    ]_vars
(* C19: in every run of collect_epic_games the order-history endpoint is   *)
(* loaded at most once, whatever the history holds and also when the fetch *)
(* fails; a run that finds a cached ledger loads nothing and works with    *)
(* the cached ledger.                                                      *)
C19_HistoryFetchedOncePerRun ==
  /\ historyFetches <= 1
  /\ (historyFetches = 0 /\ pc \in {"feed", "sit_ret"}) =>
       orders # <<>> /\ fetch = "none"
  /\ (historyFetches = 1 /\ pc \in {"feed", "sit_ret"}) => fetch # "none"

(* The second run of an agent whose first run found an empty history: the  *)
(* endpoint is loaded again, once, and the fetch fails.                    *)
C19_Witness ==
  /\ runs = 2 /\ pc = "sit_ret" /\ historyFetches = 1 /\ fetch = "failed"
  /\ Len(catalog) = 2

(* C20: when the fetch of the order history raises, at whatever point of   *)
(* lines 95-105, the run goes on with an empty ledger and every promotion  *)
(* of the catalog is outstanding.                                          *)
C20_FailedFetchMeansEmptyLedger ==
  (pc = "sit_ret" /\ fetch \in {"failed", "record_failed"}) =>
    orders = <<>> /\ namespaces = <<>> /\ promotions = catalog
====
